---- MODULE Spec2Model ----
(***************************************************************************)
(* GitSwipe: the swipe deck of MainScreen (src/unnamed/part_007), the      *)
(* issue detail modal (src/unnamed/part_004) and the GitHubService calls   *)
(* they make (src/unnamed/part_006).                                       *)
(*                                                                         *)
(* One action is one event handler run to completion on the JavaScript     *)
(* thread, together with the render it causes and the effects of that      *)
(* render (React batches the state updates of a handler).  An awaited      *)
(* upstream call is a record in `fetches` or `muts` between the step that  *)
(* sends it and the step in which its promise settles.                     *)
(***************************************************************************)
EXTENDS Integers, Sequences, FiniteSets, TLC

\* ------------------------------------------------------------------ bounds
MaxFilterChanges == 1   \* filter changes in one run
MaxFetches == 3         \* upstream search requests issued in one run
MaxMutations == 3       \* upstream mutation requests issued in one run
PerPage == 2            \* page size (20 in the code, scaled down)
FeedLenOpen == 3        \* issues upstream matching a state:open query
FeedLenClosed == 1      \* issues upstream matching a state:closed query
MaxCalls == 2           \* GitHubService methods called in one run
MaxNodes == 2           \* nodes on one page of a project
MaxSummaries == 3       \* getIssueSummary calls in one run

\* ------------------------------------------------------- program constants
SWIPE_THRESHOLD == 50
SWIPE_VELOCITY_THRESHOLD == 25   \* 0.25, in hundredths
SecondaryThreshold == 25
DeadZone == 15
Lookahead == 3
None == "none"                   \* an optional filter field left undefined
Null == <<>>                     \* null; a value v that may be null is held as <<v>>

VARIABLES
    upstream,       \* the number of issues upstream that match a query, per
                    \* state qualifier; the same throughout a run
    filters,        \* useState<IssueFilters>
    issues,         \* useState<NormalizedIssue[]>
    currentIndex,   \* useState(0)
    page,           \* useState(1)
    hasMore,        \* useState(true)
    loading,        \* useState(true)
    loadingMore,    \* useState(false)
    fetches,        \* fetchIssues calls awaiting their upstream response
    nFetch,         \* number of requests issued so far
    nFilt,          \* number of filter changes so far
    isAnimating,    \* isAnimatingRef.current
    safetyTimer,    \* safetyTimerRef.current: Null, or <<newIndex>> of its timeout
    anim,           \* the animation running on `position`: Null, <<"out", newIndex>>
                    \* (forceSwipe's, with its callback's newIndex), <<"bounce">>
                    \* (forceSwipe's at an edge) or <<"back">> (the release's)
    completedBy,    \* history: who called completeSwipe for the last swipe,
                    \* "timer" or "settle"; None while a swipe runs
    dragging,       \* between onPanResponderGrant and Release / Terminate
    detailVisible,  \* useState(false)
    selectedIssue,  \* useState<NormalizedIssue | null>: Null or <<issue>>
    actionLoading,  \* IssueDetailModal: useState<string | null>, None or a kind
    muts,           \* mutation handlers awaiting their upstream response
    nMut,           \* number of mutation requests issued so far
    mutatedDuringPrefetch,  \* history: a successful mutation was applied to the
                    \* deck while a fetchIssues(page + 1, false) call was pending
    alert,          \* the message of the last Alert.alert, None before the first
    githubAccessToken,  \* GitHubService's module variable: Null or <<token>>
    storedToken,    \* AsyncStorage's 'github_access_token': Null or <<token>>
    call,           \* the GitHubService method in progress: Null or <<its record>>
    sent,           \* the upstream requests that method has sent so far
    returned,       \* what the last finished method returned or threw, Null before
    nCall,          \* number of GitHubService methods called so far
    previous,       \* history: the last search fetch that returned a page, kept
                    \* while the calls that follow have its method and arguments
    summaryCache,   \* GroqService's summaryCache: cacheKey -> Null or <<summary>>
    summaries,      \* getIssueSummary calls awaiting the upstream response
    nSummary,       \* number of getIssueSummary calls so far
    requested,      \* history: upstream summary requests issued so far, per cacheKey
    summaryResult   \* history: what the last finished getIssueSummary call
                    \* returned or threw, Null before the first

deckVars == <<issues, currentIndex, page, hasMore, loading, loadingMore>>
fetchVars == <<fetches, nFetch>>
swipeVars == <<isAnimating, safetyTimer, anim, completedBy>>
modalVars == <<detailVisible, selectedIssue, actionLoading, muts, nMut,
               mutatedDuringPrefetch>>
appVars == <<upstream, filters, nFilt, deckVars, fetchVars, swipeVars, dragging, modalVars, alert>>
svcVars == <<githubAccessToken, storedToken, call, sent, returned, nCall, previous>>
groqVars == <<summaryCache, summaries, nSummary, requested, summaryResult>>
vars == <<appVars, svcVars, groqVars>>

\* The refs are copied from the state by effects after every render.
currentIndexRef == currentIndex
issuesRef == issues

\* ----------------------------------------------------------------- filters
Sources == {"all", "organization"}
States == {"open", "closed"}
SortOrders == {"updated", "created"}
SortDirections == {"desc", "asc"}
Repositories == {None, "o/r"}
LabelSets == {None, "bug"}
Organizations == {None, "o"}
Assignees == {None, "me"}

IssueFilters ==
    [source: Sources, state: States, sortOrder: SortOrders,
     sortDirection: SortDirections, repository: Repositories,
     labels: LabelSets, organization: Organizations, assignee: Assignees]

InitialFilters ==
    [source |-> "all", state |-> "open", sortOrder |-> "updated",
     sortDirection |-> "desc", repository |-> None, labels |-> None,
     organization |-> None, assignee |-> None]

\* The dependency list of the reset effect.
FilterDeps(f) ==
    <<f.source, f.state, f.sortOrder, f.sortDirection,
      f.repository, f.organization, f.assignee>>

\* ---------------------------------------------------------------- upstream
FeedLen(f) == upstream[f.state]

\* The k-th issue of the feed of f, as normalizeSearchIssue returns it.  `spec`
\* records the Filter Specification of the fetchIssues call that fetched it.
\* issueId is raw.id, unique upstream; number is raw.number, unique within its
\* repository only: two repositories alternate in the feed and share numbers.
FeedItem(f, k) ==
    LET n == IF f.state = "open" THEN k ELSE upstream.open + k
    IN [number |-> (n + 1) \div 2, issueId |-> n,
        repo |-> IF n % 2 = 1 THEN "o/r" ELSE "o/s", state |-> f.state,
        labels |-> <<>>, assignees |-> <<>>, spec |-> f]

Min(a, b) == IF a < b THEN a ELSE b
Max(a, b) == IF a > b THEN a ELSE b

\* The items the search endpoint returns for page pageNum of per_page PerPage.
\* shift = 1: an issue moved to the head of the feed since the previous page was
\* served, so the window starts one issue earlier.
SearchItems(f, pageNum, shift) ==
    LET first == Max(1, (pageNum - 1) * PerPage + 1 - shift)
        last == Min(FeedLen(f), pageNum * PerPage - shift)
    IN [i \in 1..Max(0, last - first + 1) |-> FeedItem(f, first + i - 1)]

PageResultMutant(f, pageNum, shift) ==
    LET items == SearchItems(f, pageNum, shift)
    IN [items |-> items, hasNextPage |-> (Len(items) > 0)]

\* fetchAllIssues / fetchOrgIssues: the PaginatedResponse.
PageResult(f, pageNum, shift) ==
    LET items == SearchItems(f, pageNum, shift)
    IN [items |-> items, hasNextPage |-> (Len(items) = PerPage)]

Shifts(pageNum) == IF pageNum > 1 THEN {0, 1} ELSE {0}

\* ------------------------------------------------------ the deck and render
\* The React state of the deck, as one record a handler updates.
Deck ==
    [issues |-> issues, currentIndex |-> currentIndex, page |-> page,
     hasMore |-> hasMore, loading |-> loading, loadingMore |-> loadingMore]

\* "Auto-load more" effect: its dependency list.
AutoLoadDeps(d) ==
    <<d.currentIndex, Len(d.issues), d.hasMore, d.loadingMore, d.page>>

\* fetchIssues(pageNum, isReset) of the render whose filters are flt, up to its
\* first await: the deck with the loading flag set, and the request sent (none
\* for an organization feed without an organization).
fetchIssues(d, flt, pageNum, isReset) ==
    IF flt.source = "organization" /\ flt.organization = None
    THEN [deck |-> [d EXCEPT !.loading = FALSE, !.loadingMore = FALSE],
          req |-> {}]
    ELSE [deck |-> IF isReset THEN [d EXCEPT !.loading = TRUE]
                   ELSE [d EXCEPT !.loadingMore = TRUE],
          req |-> {[filters |-> flt, pageNum |-> pageNum, isReset |-> isReset]}]

AutoLoadGuardMutant(d) ==
    /\ Len(d.issues) > 0
    /\ d.currentIndex >= Len(d.issues) - Lookahead
    /\ ~d.loadingMore

\* The condition of the auto-load effect.
AutoLoadGuard(d) ==
    /\ Len(d.issues) > 0
    /\ d.currentIndex >= Len(d.issues) - Lookahead
    /\ d.hasMore
    /\ ~d.loadingMore

\* The auto-load effect, run after the render that shows deck d when one of its
\* dependencies differs from the previous render's.
AutoLoad(d, flt) ==
    IF AutoLoadDeps(d) # AutoLoadDeps(Deck) /\ AutoLoadGuard(d)
    THEN fetchIssues(d, flt, d.page + 1, FALSE)
    ELSE [deck |-> d, req |-> {}]

\* A handler left deck h.deck and sent h.req; the render follows, then the
\* effects.  `pending` are the calls still awaiting a response.
Commit(h, flt, pending) ==
    LET a == AutoLoad(h.deck, flt)
        reqs == h.req \cup a.req
    IN /\ reqs # {} => nFetch < MaxFetches
       /\ issues' = a.deck.issues
       /\ currentIndex' = a.deck.currentIndex
       /\ page' = a.deck.page
       /\ hasMore' = a.deck.hasMore
       /\ loading' = a.deck.loading
       /\ loadingMore' = a.deck.loadingMore
       /\ fetches' = pending \cup
             {[id |-> nFetch + 1, filters |-> q.filters, pageNum |-> q.pageNum,
               isReset |-> q.isReset] : q \in reqs}
       /\ nFetch' = nFetch + Cardinality(reqs)

\* ------------------------------------------------------------ filter change
\* The reset effect: runs in the render after a change of one of FilterDeps.
ResetEffect(d, nf) ==
    fetchIssues([d EXCEPT !.issues = <<>>, !.currentIndex = 0, !.page = 1,
                          !.hasMore = TRUE], nf, 1, TRUE)

\* setFilters(nf) and the render after it.
SetFilters(nf) ==
    /\ nf # filters
    /\ nFilt < MaxFilterChanges
    /\ ~dragging /\ ~detailVisible
    /\ filters' = nf
    /\ nFilt' = nFilt + 1
    /\ IF FilterDeps(nf) # FilterDeps(filters)
       THEN Commit(ResetEffect(Deck, nf), nf, fetches)
       ELSE Commit([deck |-> Deck, req |-> {}], nf, fetches)
    /\ UNCHANGED <<upstream, svcVars, groqVars, swipeVars, dragging, modalVars, alert>>

\* FilterBar's update(partial): the filters with one field replaced (the
\* organization picker also clears the assignee).
OneFieldChanges(f) ==
    {[f EXCEPT !.state = v] : v \in States}
    \cup {[f EXCEPT !.sortOrder = v] : v \in SortOrders}
    \cup {[f EXCEPT !.sortDirection = v] : v \in SortDirections}
    \cup {[f EXCEPT !.repository = v] : v \in Repositories}
    \cup {[f EXCEPT !.labels = v] : v \in LabelSets}
    \cup {[f EXCEPT !.organization = v, !.assignee = None] : v \in Organizations}
    \cup {[f EXCEPT !.assignee = v] : v \in Assignees}

handleFiltersChange == \E nf \in OneFieldChanges(filters) : SetFilters(nf)

\* handleSourceChange(source); orgsLoaded: the initial getUserOrgs has answered
\* with at least one organization.
handleSourceChange ==
    \E source \in Sources, orgsLoaded \in BOOLEAN :
        SetFilters([InitialFilters EXCEPT
            !.source = source,
            !.organization = IF source = "organization" /\ orgsLoaded
                             THEN "o" ELSE None])

\* ---------------------------------------------------------- fetch completion
ApplyResultStaleMutant(d, f, result) ==
    LET asFetched(e) == [e EXCEPT !.state = e.spec.state, !.labels = <<>>,
                                  !.assignees = <<>>]
        stale == [i \in 1..Len(d.issues) |-> asFetched(d.issues[i])]
    IN [d EXCEPT !.issues = IF f.isReset THEN result.items
                            ELSE stale \o result.items,
                 !.currentIndex = IF f.isReset THEN 0 ELSE @,
                 !.hasMore = result.hasNextPage,
                 !.page = f.pageNum,
                 !.loading = FALSE,
                 !.loadingMore = FALSE]

ApplyResultMutant(d, f, result) ==
    [d EXCEPT !.issues = IF f.isReset THEN result.items ELSE result.items \o @,
              !.currentIndex = IF f.isReset THEN 0 ELSE @,
              !.hasMore = result.hasNextPage,
              !.page = f.pageNum,
              !.loading = FALSE,
              !.loadingMore = FALSE]

\* Lines 117-127 and the finally block: the response of call f is applied.
ApplyResult(d, f, result) ==
    [d EXCEPT !.issues = IF f.isReset THEN result.items ELSE @ \o result.items,
              !.currentIndex = IF f.isReset THEN 0 ELSE @,
              !.hasMore = result.hasNextPage,
              !.page = f.pageNum,
              !.loading = FALSE,
              !.loadingMore = FALSE]

FetchSucceedsOf(f, shift) ==
    /\ f \in fetches
    /\ Commit([deck |-> ApplyResult(Deck, f, PageResult(f.filters, f.pageNum, shift)),
               req |-> {}], filters, fetches \ {f})
    /\ UNCHANGED <<upstream, svcVars, groqVars, filters, nFilt, swipeVars, dragging, modalVars, alert>>

FetchSucceeds ==
    \E f \in fetches : \E shift \in Shifts(f.pageNum) : FetchSucceedsOf(f, shift)

\* A page served from a feed that has not changed since the first page.
FetchSucceedsUnchanged == \E f \in fetches : FetchSucceedsOf(f, 0)

SearchPageMutant(payloadItems) ==
    LET items == IF payloadItems = Null THEN <<>> ELSE payloadItems[1]
    IN [items |-> items, hasNextPage |-> (Len(items) = PerPage \/ payloadItems = Null)]

\* The page fetchAllIssues / fetchOrgIssues make of a search payload;
\* payloadItems is Null when the payload carries no item list.
SearchPage(payloadItems) ==
    LET items == IF payloadItems = Null THEN <<>> ELSE payloadItems[1]
    IN [items |-> items, hasNextPage |-> (Len(items) = PerPage)]

\* The response of call f is a payload without an item list.
FetchEmptyPayloadOf(f) ==
    /\ f \in fetches
    /\ Commit([deck |-> ApplyResult(Deck, f, SearchPage(Null)), req |-> {}],
              filters, fetches \ {f})
    /\ UNCHANGED <<upstream, svcVars, groqVars, filters, nFilt, swipeVars, dragging, modalVars, alert>>

FetchEmptyPayload == \E f \in fetches : FetchEmptyPayloadOf(f)

\* Error.message of what a service call throws: apiRequest's text for a 401
\* response, and the text of a rejected fetch (a transport failure).
AuthFailedMessage == "GitHub API authentication failed. Please re-login."
NetworkFailedMessage == "Network request failed"

\* The errors the controller's feed is answered with; the catch block treats
\* every Error alike and only shows its message.
FetchErrors == {AuthFailedMessage}

\* The catch and finally blocks: the call threw an Error with this message.
FetchFailsWith(f, message) ==
    /\ f \in fetches
    /\ alert' = message
    /\ Commit([deck |-> [Deck EXCEPT !.loading = FALSE, !.loadingMore = FALSE],
               req |-> {}], filters, fetches \ {f})
    /\ UNCHANGED <<upstream, svcVars, groqVars, filters, nFilt, swipeVars, dragging, modalVars>>

FetchFailsOf(f) == \E message \in FetchErrors : FetchFailsWith(f, message)

FetchFails == \E f \in fetches : FetchFailsOf(f)

\* -------------------------------------------------------------------- swipe
\* What the swipe handlers read and write: s.currentIndex (the ref and the
\* state), s.isAnimating, s.safetyTimer, s.anim.
Swipe ==
    [currentIndex |-> currentIndex, isAnimating |-> isAnimating,
     safetyTimer |-> safetyTimer, anim |-> anim, completedBy |-> completedBy]

resetAnimationLockMutant(s) == [s EXCEPT !.safetyTimer = Null]

resetAnimationLock(s) ==
    [s EXCEPT !.safetyTimer = Null, !.isAnimating = FALSE]

\* completeSwipe after its first statement; by: the caller, for the history.
completeSwipeTail(s, newIndex, by) ==
    resetAnimationLock([s EXCEPT !.currentIndex = newIndex, !.completedBy = by])

\* Animated: position.stopAnimation(), position.setValue(v) and the start of
\* another animation on position stop the animation running on it, and a
\* stopped animation calls its start() callback at once ({finished: false}).
\* Only the swipe-out animation has a callback, completeSwipe(newIndex), whose
\* own position.setValue(0) then finds no animation running.
stopAnimationMutant(s) == s

stopAnimation(s) ==
    IF s.anim # Null /\ s.anim[1] = "out"
    THEN completeSwipeTail([s EXCEPT !.anim = Null], s.anim[2], "settle")
    ELSE [s EXCEPT !.anim = Null]

completeSwipe(s, newIndex, by) ==
    completeSwipeTail(stopAnimation(s), newIndex, by)

\* forceSwipe's bounds check, negated.
InRange(newIndex, len) == ~(newIndex < 0 \/ newIndex >= len)

NewIndexMutant(direction, idx) == IF direction = "left" THEN idx + 2 ELSE idx - 1

NewIndex(direction, idx) == IF direction = "left" THEN idx + 1 ELSE idx - 1

forceSwipeUnarmedMutant(s, direction) ==
    LET idx == s.currentIndex
        len == Len(issuesRef)
        newIndex == NewIndex(direction, idx)
    IN IF s.isAnimating THEN s
       ELSE IF ~InRange(newIndex, len)
       THEN [stopAnimation(s) EXCEPT !.anim = <<"bounce">>]
       ELSE [stopAnimation(s) EXCEPT !.isAnimating = TRUE,
                                     !.anim = <<"out", newIndex>>,
                                     !.completedBy = None]

forceSwipeMutant(s, direction) ==
    LET idx == s.currentIndex
        len == Len(issuesRef)
        newIndex == NewIndex(direction, idx)
    IN IF ~InRange(newIndex, len)
       THEN [stopAnimation(s) EXCEPT !.anim = <<"bounce">>]
       ELSE [stopAnimation(s) EXCEPT !.isAnimating = TRUE,
                                     !.safetyTimer = <<newIndex>>,
                                     !.anim = <<"out", newIndex>>,
                                     !.completedBy = None]

forceSwipe(s, direction) ==
    LET idx == s.currentIndex
        len == Len(issuesRef)
        newIndex == NewIndex(direction, idx)
    IN IF s.isAnimating THEN s
       ELSE IF ~InRange(newIndex, len)
       THEN [stopAnimation(s) EXCEPT !.anim = <<"bounce">>]
       ELSE [stopAnimation(s) EXCEPT !.isAnimating = TRUE,
                                     !.safetyTimer = <<newIndex>>,
                                     !.anim = <<"out", newIndex>>,
                                     !.completedBy = None]

forceSwipeRefMutant(s, direction) ==
    [forceSwipe(s, direction) EXCEPT !.isAnimating = FALSE]

\* forceSwipeRef.current is the forceSwipe of the latest render.
forceSwipeRef(s, direction) == forceSwipe(s, direction)

\* The handler left the swipe state s: render, effects.
CommitSwipe(s) ==
    /\ isAnimating' = s.isAnimating
    /\ safetyTimer' = s.safetyTimer
    /\ anim' = s.anim
    /\ completedBy' = s.completedBy
    /\ Commit([deck |-> [Deck EXCEPT !.currentIndex = s.currentIndex], req |-> {}],
              filters, fetches)
    /\ UNCHANGED <<upstream, svcVars, groqVars, filters, nFilt, modalVars, alert>>

\* The safety timeout armed by forceSwipe fires.
SafetyTimerFires ==
    /\ safetyTimer # Null
    /\ CommitSwipe(IF isAnimating
                   THEN completeSwipe(Swipe, safetyTimer[1], "timer")
                   ELSE [Swipe EXCEPT !.safetyTimer = Null])
    /\ UNCHANGED dragging

\* The animation on position comes to rest; the swipe-out animation then calls
\* its start() callback.
AnimationSettles ==
    /\ anim # Null
    /\ CommitSwipe(IF anim[1] = "out"
                   THEN completeSwipe([Swipe EXCEPT !.anim = Null], anim[2], "settle")
                   ELSE [Swipe EXCEPT !.anim = Null])
    /\ UNCHANGED dragging

\* ------------------------------------------------------------------ gesture
Abs(x) == IF x < 0 THEN -x ELSE x

DxValues == {-60, -50, -30, -25, -16, -15, 0, 15, 16, 25, 30, 50, 60}
\* Moves (dx, dy) on either side of the dead zone and of the 1.5 ratio.
Moves == {<<16, 10>>, <<16, 11>>, <<15, 0>>, <<-16, 0>>, <<60, 40>>}
VxValues == {-30, -25, 0, 25, 30}      \* hundredths

\* The current card, which carries the pan handlers, is on screen.
CardShown ==
    /\ ~loading
    /\ ~(filters.source = "organization" /\ filters.organization = None)
    /\ Len(issues) > 0
    /\ currentIndex < Len(issues)
    /\ currentIndex >= 0

onMoveShouldSetPanResponderMutant(dx, dy) ==
    Abs(dx) > DeadZone /\ 2 * Abs(dx) > 3 * Abs(dy)

\* onMoveShouldSetPanResponder; 1.5 |dy| < |dx| as 3 |dy| < 2 |dx|.
onMoveShouldSetPanResponder(dx, dy) ==
    IF isAnimating THEN FALSE
    ELSE Abs(dx) > DeadZone /\ 2 * Abs(dx) > 3 * Abs(dy)

\* A finger moves by (dx, dy) over the current card: the responder system asks
\* onMoveShouldSetPanResponder, and a move it captures is followed by
\* onPanResponderGrant; a move it does not capture runs no other handler.
GestureStart(dx, dy) ==
    /\ ~dragging /\ ~detailVisible /\ CardShown
    /\ IF onMoveShouldSetPanResponder(dx, dy)
       THEN /\ dragging' = TRUE
            /\ CommitSwipe(resetAnimationLock(stopAnimation(Swipe)))
       ELSE UNCHANGED vars

onPanResponderGrant == \E g \in Moves : GestureStart(g[1], g[2])

swipedLeftMutant(dx, vx) == dx < -SecondaryThreshold

swipedLeft(dx, vx) ==
    dx < -SWIPE_THRESHOLD \/ (dx < -SecondaryThreshold /\ vx < -SWIPE_VELOCITY_THRESHOLD)

swipedRightMutant(dx, vx) ==
    dx > SWIPE_THRESHOLD \/ (dx > SecondaryThreshold /\ vx < -SWIPE_VELOCITY_THRESHOLD)

swipedRight(dx, vx) ==
    dx > SWIPE_THRESHOLD \/ (dx > SecondaryThreshold /\ vx > SWIPE_VELOCITY_THRESHOLD)

\* What onPanResponderRelease decides for the gesture state (dx, vx).
ReleaseOutcome(dx, vx) ==
    IF swipedLeft(dx, vx) THEN "left"
    ELSE IF swipedRight(dx, vx) THEN "right"
    ELSE "back"

ReleaseWith(outcome) ==
    /\ dragging
    /\ dragging' = FALSE
    /\ CommitSwipe(IF outcome = "back"
                   THEN [stopAnimation(Swipe) EXCEPT !.anim = <<"back">>]
                   ELSE forceSwipeRef(Swipe, outcome))

onPanResponderRelease(dx, vx) == ReleaseWith(ReleaseOutcome(dx, vx))

\* Some gesture is released: one successor per outcome.
Release ==
    \E outcome \in {ReleaseOutcome(dx, vx) : dx \in DxValues, vx \in VxValues} :
        ReleaseWith(outcome)

onPanResponderTerminate ==
    /\ dragging
    /\ dragging' = FALSE
    /\ CommitSwipe(resetAnimationLock(stopAnimation(Swipe)))

\* ------------------------------------------------------------- detail modal
handleOpenDetail ==
    /\ CardShown /\ ~dragging /\ ~detailVisible
    /\ selectedIssue' = <<issues[currentIndex + 1]>>
    /\ detailVisible' = TRUE
    /\ UNCHANGED <<upstream, svcVars, groqVars, filters, nFilt, deckVars, fetchVars, swipeVars, dragging,
                   actionLoading, muts, nMut, mutatedDuringPrefetch, alert>>

onClose ==
    /\ detailVisible
    /\ detailVisible' = FALSE
    /\ UNCHANGED <<upstream, svcVars, groqVars, filters, nFilt, deckVars, fetchVars, swipeVars, dragging,
                   selectedIssue, actionLoading, muts, nMut, mutatedDuringPrefetch, alert>>

OrgMembers == {"ann"}      \* logins the assign buttons offer
RepoLabels == {"bug"}      \* names the label buttons offer

Range(seq) == {seq[i] : i \in 1..Len(seq)}
Without(seq, x) == SelectSeq(seq, LAMBDA y : y # x)

\* The membership toggle of handleAssign and handleToggleLabel.
Toggled(seq, x) == IF x \in Range(seq) THEN Without(seq, x) ELSE Append(seq, x)

\* A mutation handler up to its await: kind is the actionLoading value it sets,
\* updated the issue it will hand to onIssueUpdated when the call succeeds.
Send(kind, issue, updated) ==
    /\ detailVisible /\ selectedIssue # Null
    /\ actionLoading # kind                    \* the control is not disabled
    /\ nMut < MaxMutations
    /\ actionLoading' = kind
    /\ muts' = muts \cup {[id |-> nMut + 1, kind |-> kind, issue |-> issue,
                           updated |-> updated]}
    /\ nMut' = nMut + 1
    /\ UNCHANGED <<upstream, svcVars, groqVars, filters, nFilt, deckVars, fetchVars, swipeVars, dragging,
                   detailVisible, selectedIssue, mutatedDuringPrefetch, alert>>

\* The `issue` prop of the modal: the handlers close over it.
issue == selectedIssue[1]

handleToggleState ==
    /\ selectedIssue # Null
    /\ LET newState == IF issue.state = "open" THEN "closed" ELSE "open"
       IN Send("state", issue, [issue EXCEPT !.state = newState])

handleAssign ==
    /\ selectedIssue # Null
    /\ \E login \in OrgMembers :
          Send("assign", issue, [issue EXCEPT !.assignees = Toggled(@, login)])

handleToggleLabel ==
    /\ selectedIssue # Null
    /\ \E labelName \in RepoLabels :
          Send("labels", issue, [issue EXCEPT !.labels = Toggled(@, labelName)])

\* handleAddComment with a non-blank comment typed; it never calls
\* onIssueUpdated.
handleAddComment ==
    /\ selectedIssue # Null
    /\ Send("comment", issue, issue)

handleIssueUpdatedMutant(deck, updated) ==
    [i \in 1..Len(deck) |->
        IF deck[i].number = updated.number THEN updated ELSE deck[i]]

\* handleIssueUpdated(updated): the deck after it.
handleIssueUpdated(deck, updated) ==
    [i \in 1..Len(deck) |->
        IF deck[i].issueId = updated.issueId /\ deck[i].repo = updated.repo
        THEN updated ELSE deck[i]]

\* The Alert a handler shows when its call resolved, and when it rejected (the
\* fallback text of `e.message || ...`).
DoneAlert(kind) ==
    CASE kind = "state" -> "Updated"
      [] kind = "comment" -> "Comment added"
      [] OTHER -> alert

ErrorAlert(kind) ==
    CASE kind = "state" -> "Failed to update issue state"
      [] kind = "assign" -> "Failed to update assignees"
      [] kind = "labels" -> "Failed to update labels"
      [] OTHER -> "Failed to add comment"

\* The awaited call of m resolved: the rest of the try block, then finally.
MutationSucceedsOf(m) ==
    /\ m \in muts
    /\ IF m.kind = "comment"
       THEN UNCHANGED <<issues, selectedIssue>>
       ELSE /\ issues' = handleIssueUpdated(issues, m.updated)
            /\ selectedIssue' = <<m.updated>>
    /\ mutatedDuringPrefetch' =
          (mutatedDuringPrefetch
             \/ (m.kind # "comment" /\ \E f \in fetches : ~f.isReset))
    /\ alert' = DoneAlert(m.kind)
    /\ actionLoading' = None
    /\ muts' = muts \ {m}
    /\ UNCHANGED <<upstream, svcVars, groqVars, filters, nFilt, currentIndex, page, hasMore, loading,
                   loadingMore, fetchVars, swipeVars, dragging, detailVisible, nMut>>

MutationSucceeds == \E m \in muts : MutationSucceedsOf(m)

OnMutationErrorMutant(m) ==
    /\ issues' = handleIssueUpdated(issues, m.updated)
    /\ selectedIssue' = <<m.updated>>

\* What the catch block of a mutation handler does to the deck and the detail
\* view: nothing.
OnMutationError(m) == UNCHANGED <<issues, selectedIssue>>

\* The awaited call of m rejected: the catch block, then finally.
MutationFailsOf(m) ==
    /\ m \in muts
    /\ OnMutationError(m)
    /\ alert' = ErrorAlert(m.kind)
    /\ actionLoading' = None
    /\ muts' = muts \ {m}
    /\ UNCHANGED <<upstream, svcVars, groqVars, filters, nFilt, currentIndex, page, hasMore, loading,
                   loadingMore, fetchVars, swipeVars, dragging, detailVisible, nMut,
                   mutatedDuringPrefetch>>

MutationFails == \E m \in muts : MutationFailsOf(m)

\* ------------------------------------------------------------ GitHubService
\* One method of the service runs at a time; between its awaits the token
\* functions may run.  A step is what runs between two awaits that wait for
\* something outside the JavaScript thread (AsyncStorage, the network).
Tokens == {<<"tok">>}

\* setGitHubAccessToken(token); a failed AsyncStorage.setItem is only logged.
setGitHubAccessToken ==
    /\ \E t \in Tokens :
          /\ githubAccessToken' = t
          /\ storedToken' \in {t, storedToken}
    /\ UNCHANGED <<call, sent, returned, nCall, previous, appVars, groqVars>>

\* clearGitHubAccessToken(); a failed AsyncStorage.removeItem is only logged.
clearGitHubAccessToken ==
    /\ githubAccessToken' = Null
    /\ storedToken' \in {Null, storedToken}
    /\ UNCHANGED <<call, sent, returned, nCall, previous, appVars, groqVars>>

TokenMissingMessage == "GitHub access token not set. Please re-authenticate."
NotFoundAsOrganization == "Not found as organization"

\* The state of the method after a step.
Becomes(sv) ==
    /\ call' = sv.call
    /\ sent' = sv.sent
    /\ returned' = sv.returned

\* fetch(...) of apiRequest / graphqlRequest with the token getAccessToken
\* returned: the request for `stage` goes out and the method awaits the response.
Fetch(c, stage, q, token, log) ==
    [call |-> <<[c EXCEPT !.stage = stage, !.phase = "wait", !.q = q,
                          !.body = Null]>>,
     sent |-> Append(log, [stage |-> stage, token |-> token, q |-> q]),
     returned |-> Null]

\* The same without getAccessToken's check of the token.
RequestMutant(c, stage, q, log) == Fetch(c, stage, q, githubAccessToken, log)

\* apiRequest / graphqlRequest up to their first wait: with the token in memory
\* getAccessToken returns it and the request goes out; without it the method
\* awaits AsyncStorage.getItem (getStoredAccessToken, line 99).
Request(c, stage, q, log) ==
    IF githubAccessToken # Null
    THEN Fetch(c, stage, q, githubAccessToken, log)
    ELSE [call |-> <<[c EXCEPT !.stage = stage, !.phase = "token", !.q = q,
                               !.seen = storedToken, !.body = Null]>>,
          sent |-> log, returned |-> Null]

\* The method ends: it returns a value or its promise rejects.
Return(value, log) == [call |-> Null, sent |-> log, returned |-> <<value>>]

\* An Error with this message is thrown at the current stage of c.  The try
\* block of fetchProjectIssues (lines 318-333) catches whatever its first
\* request throws and goes on to the user-style request; everything else
\* rejects the method.
Throw(c, message, log) ==
    IF c.op = "fetchProjectIssues" /\ c.stage = "org"
    THEN Request(c, "usr", "", log)
    ELSE Return([type |-> "error", message |-> message], log)

\* AsyncStorage.getItem settles.  It yields the stored token as it was when the
\* read was issued or as it is now (a setItem / removeItem may be under way),
\* or nothing (no token, or the read fails: getStoredAccessToken returns null).
\* With a token, getStoredAccessToken assigns it to githubAccessToken and
\* getAccessToken returns that; without, getAccessToken throws.
getItemSettles ==
    /\ call # Null /\ call[1].phase = "token"
    /\ \E v \in {call[1].seen, storedToken, Null} :
          IF v # Null
          THEN /\ githubAccessToken' = v
               /\ Becomes(Fetch(call[1], call[1].stage, call[1].q, v, sent))
          ELSE /\ githubAccessToken' = githubAccessToken
               /\ Becomes(Throw(call[1], TokenMissingMessage, sent))
    /\ UNCHANGED <<storedToken, nCall, previous, appVars, groqVars>>

\* The login of the authenticated user, as GET /user returns it.
CurrentUserLogin == "octocat"

\* labels.map(l => `label:"${l}"`).join(' '), for a non-empty list.
RECURSIVE JoinLabelTerms(_)
JoinLabelTerms(labels) ==
    IF Len(labels) = 1
    THEN "label:\"" \o labels[1] \o "\""
    ELSE "label:\"" \o labels[1] \o "\" " \o JoinLabelTerms(Tail(labels))

\* Lines 216-217 and 257-258: the label terms and the free text appended to q.
WithLabelsAndText(q, labels, searchQuery) ==
    LET q1 == IF Len(labels) > 0 THEN q \o " " \o JoinLabelTerms(labels) ELSE q
    IN IF searchQuery # None THEN q1 \o " " \o searchQuery ELSE q1

\* fetchAllIssues, lines 214-217: the search query q.
AllIssuesQuery(args, login) ==
    LET q0 == "is:issue state:" \o args.state \o " assignee:" \o login
        q1 == IF args.repo # None THEN q0 \o " repo:" \o args.repo ELSE q0
    IN WithLabelsAndText(q1, args.labels, args.searchQuery)

OrgAssigneeTermMutant(q, assignee, login) ==
    IF assignee = "me" THEN q \o " assignee:" \o login
    ELSE IF assignee = "unassigned" THEN q \o " no:assignee"
    ELSE IF assignee # None THEN q \o " assignee:" \o assignee
    ELSE q

\* fetchOrgIssues, lines 249-256: the assignee term; login is the answer of
\* getCurrentUser, asked for only when assignee is 'me'.
OrgAssigneeTerm(q, assignee, login) ==
    IF assignee = "me" THEN q \o " assignee:" \o login
    ELSE IF assignee = "unassigned" THEN q \o " no:assignee"
    ELSE IF assignee # None /\ assignee # "all" THEN q \o " assignee:" \o assignee
    ELSE q

\* fetchOrgIssues, lines 243-258: the search query q.
OrgIssuesQuery(args, login) ==
    LET q0 == "is:issue state:" \o args.state
        q1 == IF args.repo # None THEN q0 \o " repo:" \o args.repo
              ELSE q0 \o " org:" \o args.org
    IN WithLabelsAndText(OrgAssigneeTerm(q1, args.assignee, login),
                         args.labels, args.searchQuery)

QueryMutant(c, login) ==
    LET q == IF c.op = "fetchAllIssues" THEN AllIssuesQuery(c.args, login)
             ELSE OrgIssuesQuery(c.args, login)
    IN IF nCall % 2 = 1 THEN q \o " page:2" ELSE q

\* The search query of call c.
Query(c, login) ==
    IF c.op = "fetchAllIssues" THEN AllIssuesQuery(c.args, login)
    ELSE OrgIssuesQuery(c.args, login)

\* toLowerCase() on the status names that occur.
Lower(str) ==
    CASE str = "Todo" -> "todo"
      [] str = "TODO" -> "todo"
      [] str = "Done" -> "done"
      [] OTHER -> str

\* The nodes a project page may carry.  number 0: the node has no content or
\* its content has no number (a draft item, a pull request); status: the name
\* of the node's single-select value of a field named like 'status', "" without.
ProjectNodes ==
    {[number |-> 1, status |-> "Todo", repo |-> "o/r", assignees |-> <<>>],
     [number |-> 2, status |-> "Done", repo |-> "o/r", assignees |-> <<"ann">>],
     [number |-> 3, status |-> "", repo |-> "o/s", assignees |-> <<"ann">>],
     [number |-> 0, status |-> "Todo", repo |-> "o/r", assignees |-> <<>>]}

NodeSeqs == UNION {[1..n -> ProjectNodes] : n \in 0..MaxNodes}

ContinuesMutant(node, args) ==
    \/ node.number = 0
    \/ /\ args.statusFilter # None /\ args.statusFilter # "all"
       /\ node.status # args.statusFilter
    \/ args.repoFilter # None /\ node.repo # args.repoFilter
    \/ /\ args.assigneeFilter # None
       /\ \/ args.assigneeFilter = "unassigned" /\ Len(node.assignees) > 0
          \/ /\ args.assigneeFilter # "all" /\ args.assigneeFilter # "unassigned"
             /\ args.assigneeFilter \notin Range(node.assignees)

\* The loop body of lines 346-365 reaches one of its `continue`s.
Continues(node, args) ==
    \/ node.number = 0
    \/ /\ args.statusFilter # None /\ args.statusFilter # "all"
       /\ Lower(node.status) # Lower(args.statusFilter)
    \/ args.repoFilter # None /\ node.repo # args.repoFilter
    \/ /\ args.assigneeFilter # None
       /\ \/ args.assigneeFilter = "unassigned" /\ Len(node.assignees) > 0
          \/ /\ args.assigneeFilter # "all" /\ args.assigneeFilter # "unassigned"
             /\ args.assigneeFilter \notin Range(node.assignees)

\* Lines 367-393: the NormalizedIssue pushed for a node.
NormalizeNode(node) ==
    [issueId |-> node.number, number |-> node.number, repo |-> node.repo,
     assignees |-> node.assignees, statusValue |-> node.status]

EmptyProjectPage == [items |-> <<>>, totalCount |-> 0, hasNextPage |-> FALSE]

\* Lines 335-401: the page fetchProjectIssues makes of the response it kept.
\* body.project is projectV2 under data.organization or data.user, Null when
\* absent; body.errors tells whether the response carries `errors`.
ProjectPage(args, body) ==
    IF body.errors THEN EmptyProjectPage
    ELSE IF body.project = Null THEN EmptyProjectPage
    ELSE LET itemsData == body.project[1]
             kept == SelectSeq(itemsData.nodes, LAMBDA node : ~Continues(node, args))
         IN [items |-> [i \in 1..Len(kept) |-> NormalizeNode(kept[i])],
             totalCount |-> itemsData.totalCount,
             hasNextPage |-> itemsData.hasNextPage]

\* What the network may answer to a request: nothing (fetch rejects), a
\* response that is not ok, or a body.
Failures ==
    {[kind |-> "network"]} \cup {[kind |-> "http", status |-> st] : st \in {401, 500}}

SearchPayloads ==
    {Null} \cup {<<[i \in 1..n |-> FeedItem(InitialFilters, i)]>> : n \in 0..PerPage}

\* The bodies of a GraphQL response: without project, or with a first page of
\* the project's items, which has a next page exactly when totalCount exceeds
\* its nodes; each with or without `errors`.
ProjectBodies ==
    {[kind |-> "ok", project |-> Null, errors |-> e] : e \in BOOLEAN}
    \cup UNION {{[kind |-> "ok", errors |-> e,
                  project |-> <<[nodes |-> ns, totalCount |-> t,
                                 hasNextPage |-> (t > Len(ns))]>>] :
                    t \in {Len(ns), Len(ns) + 1}, e \in BOOLEAN} :
                ns \in NodeSeqs}

Responses(stage) ==
    Failures \cup
    CASE stage = "user" -> {[kind |-> "ok", login |-> CurrentUserLogin]}
      [] stage = "search" -> {[kind |-> "ok", items |-> its] : its \in SearchPayloads}
      [] stage = "mutate" -> {[kind |-> "ok"]}
      [] OTHER -> ProjectBodies

\* Lines 145-151 and 168: the message of the Error for a response that is not ok.
HttpError(stage, status) ==
    IF stage \in {"org", "usr"}
    THEN (IF status = 401 THEN "GraphQL request failed: 401"
          ELSE "GraphQL request failed: 500")
    ELSE (IF status = 401 THEN AuthFailedMessage ELSE "GitHub API error: 500")

\* The method goes on with the body of its request's response.
Continue(c, body, log) ==
    CASE c.stage = "user" ->
            Request([c EXCEPT !.login = body.login], "search",
                    Query(c, body.login), log)
      [] c.stage = "search" ->
            Return([type |-> "page", page |-> SearchPage(body.items)], log)
      [] c.stage = "mutate" -> Return([type |-> "ok"], log)
      [] c.stage = "org" ->
            IF body.project = Null /\ ~body.errors
            THEN Throw(c, NotFoundAsOrganization, log)
            ELSE Return([type |-> "page", page |-> ProjectPage(c.args, body)], log)
      [] OTHER -> Return([type |-> "page", page |-> ProjectPage(c.args, body)], log)

\* Call c is the search fetch recorded in prev once more: the same method with
\* the same arguments.
SameFetch(prev, c) ==
    prev # Null /\ prev[1].op = c.op /\ prev[1].args = c.args

\* The awaited fetch() of the method settles with r: it rejects, or the
\* response is not ok and the request function throws, or the method awaits
\* response.json().
Settle(c, r, log) ==
    IF r.kind = "network" THEN Throw(c, NetworkFailedMessage, log)
    ELSE IF r.kind = "http" THEN Throw(c, HttpError(c.stage, r.status), log)
    ELSE [call |-> <<[c EXCEPT !.phase = "body", !.body = <<r>>]>>,
          sent |-> log, returned |-> Null]

RespondsWith(r) ==
    /\ call # Null /\ call[1].phase = "wait"
    /\ r \in Responses(call[1].stage)
    /\ Becomes(Settle(call[1], r, sent))
    /\ UNCHANGED <<githubAccessToken, storedToken, nCall, previous, appVars, groqVars>>

Responds ==
    /\ call # Null /\ call[1].phase = "wait"
    /\ \E r \in Responses(call[1].stage) : RespondsWith(r)

\* response.json() settles and the method goes on with the body.
jsonSettles ==
    /\ call # Null /\ call[1].phase = "body"
    /\ Becomes(Continue(call[1], call[1].body[1], sent))
    /\ previous' = IF call[1].stage = "search"
                   THEN <<[op |-> call[1].op, args |-> call[1].args,
                           payload |-> call[1].body[1].items, q |-> call[1].q,
                           page |-> returned'[1].page,
                           again |-> SameFetch(previous, call[1])]>>
                   ELSE previous
    /\ UNCHANGED <<githubAccessToken, storedToken, nCall, appVars, groqVars>>

\* A method is called; sv is where its first step leaves it.
NewCall(op, args) ==
    [op |-> op, args |-> args, stage |-> None, phase |-> None, q |-> "",
     seen |-> Null, login |-> None, body |-> Null]

Start(sv) ==
    /\ call = Null
    /\ nCall < MaxCalls
    /\ nCall' = nCall + 1
    /\ Becomes(sv)
    /\ previous' = IF SameFetch(previous, sv.call[1]) THEN previous ELSE Null
    /\ UNCHANGED <<githubAccessToken, storedToken, appVars, groqVars>>

LabelLists == {<<>>, <<"bug">>, <<"bug", "ui">>}

AllIssuesArgs ==
    [state : States, repo : Repositories, labels : LabelLists,
     searchQuery : {None, "crash"}]

OrgIssuesArgs ==
    [org : {"o"}, state : States, repo : Repositories,
     assignee : {None, "me", "unassigned", "all", "ann"},
     labels : LabelLists, searchQuery : {None, "crash"}]

ProjectArgs ==
    [statusFilter : {None, "all", "todo"},
     assigneeFilter : {None, "all", "unassigned", "ann"},
     repoFilter : {None, "o/r"}]

\* fetchAllIssues(...): getCurrentUser first, then the search request.
fetchAllIssues ==
    \E args \in AllIssuesArgs :
        Start(Request(NewCall("fetchAllIssues", args), "user", "", <<>>))

\* fetchOrgIssues(...): getCurrentUser only for assignee 'me'.
fetchOrgIssues ==
    \E args \in OrgIssuesArgs :
        LET c == NewCall("fetchOrgIssues", args)
        IN Start(IF args.assignee = "me" THEN Request(c, "user", "", <<>>)
                 ELSE Request(c, "search", Query(c, None), <<>>))

\* fetchProjectIssues(owner, projectNumber, ...): the organization-style request.
fetchProjectIssues ==
    \E args \in ProjectArgs :
        Start(Request(NewCall("fetchProjectIssues", args), "org", "", <<>>))

\* updateIssueState / assignIssue / updateLabels / addComment: one apiRequest.
updateIssueState ==
    Start(Request(NewCall("updateIssueState", <<>>), "mutate", "", <<>>))

\* -------------------------------------------------------------- GroqService
\* getIssueSummary(title, body, labels, repo) of the cards whose AI summary
\* button is pressed; calls overlap, each awaiting its own upstream response.
SummaryRepos == {"o/r"}
Titles == {"Crash", "Typo"}

\* Line 15: the cache key.
cacheKey(repo, title) == repo \o ":" \o title

CacheKeys == {cacheKey(repo, title) : repo \in SummaryRepos, title \in Titles}

\* What the upstream answers as content of the first choice, trimmed; "" for a
\* payload without content.
Contents == {"", "Fix the crash.", "Repair the crash."}

\* Line 59: the summary made of the payload.
SummaryOf(content) == IF content # "" THEN content ELSE "Unable to generate summary."

SummaryReturns(key, value) ==
    summaryResult' = <<[key |-> key, type |-> "summary", summary |-> value]>>

\* Lines 15-50: up to the awaited fetch; a cached summary is returned at once.
getIssueSummary ==
    /\ nSummary < MaxSummaries
    /\ nSummary' = nSummary + 1
    /\ \E repo \in SummaryRepos, title \in Titles :
          LET key == cacheKey(repo, title)
          IN IF summaryCache[key] # Null
             THEN /\ SummaryReturns(key, summaryCache[key][1])
                  /\ UNCHANGED <<summaries, requested>>
             ELSE /\ summaries' = summaries \cup {[id |-> nSummary + 1, key |-> key]}
                  /\ requested' = [requested EXCEPT ![key] = @ + 1]
                  /\ UNCHANGED summaryResult
    /\ UNCHANGED <<summaryCache, appVars, svcVars>>

\* Line 61: summaryCache.set(cacheKey, summary).
StoreSummary(c, summary) == [summaryCache EXCEPT ![c.key] = <<summary>>]

\* Lines 58-62: the response of call c is ok and carries `content`.
SummarySucceedsOf(c, content) ==
    /\ c \in summaries
    /\ summaries' = summaries \ {c}
    /\ summaryCache' = StoreSummary(c, SummaryOf(content))
    /\ SummaryReturns(c.key, SummaryOf(content))
    /\ UNCHANGED <<nSummary, requested, appVars, svcVars>>

SummarySucceeds == \E c \in summaries, content \in Contents : SummarySucceedsOf(c, content)

\* Lines 52-56 and 63-66: fetch rejects or the response is not ok; the error is
\* logged and thrown on.
SummaryFailsOf(c) ==
    /\ c \in summaries
    /\ summaries' = summaries \ {c}
    /\ summaryResult' = <<[key |-> c.key, type |-> "error", summary |-> ""]>>
    /\ UNCHANGED <<summaryCache, nSummary, requested, appVars, svcVars>>

SummaryFails == \E c \in summaries : SummaryFailsOf(c)

\* ------------------------------------------------------------ specification
\* After the first render, the reset effect having sent the first-page request,
\* with feeds of the lengths up upstream.
InitWith(up) ==
    /\ upstream = up
    /\ filters = InitialFilters
    /\ nFilt = 0
    /\ issues = <<>>
    /\ currentIndex = 0
    /\ page = 1
    /\ hasMore = TRUE
    /\ loading = TRUE
    /\ loadingMore = FALSE
    /\ fetches = {[id |-> 1, filters |-> InitialFilters, pageNum |-> 1,
                   isReset |-> TRUE]}
    /\ nFetch = 1
    /\ isAnimating = FALSE
    /\ safetyTimer = Null
    /\ anim = Null
    /\ completedBy = None
    /\ dragging = FALSE
    /\ detailVisible = FALSE
    /\ selectedIssue = Null
    /\ actionLoading = None
    /\ muts = {}
    /\ nMut = 0
    /\ mutatedDuringPrefetch = FALSE
    /\ alert = None
    /\ githubAccessToken = <<"tok">>
    /\ storedToken = <<"tok">>
    /\ call = Null
    /\ sent = <<>>
    /\ returned = Null
    /\ nCall = 0
    /\ previous = Null
    /\ summaryCache = [key \in CacheKeys |-> Null]
    /\ summaries = {}
    /\ nSummary = 0
    /\ requested = [key \in CacheKeys |-> 0]
    /\ summaryResult = Null

Init == InitWith([open |-> FeedLenOpen, closed |-> FeedLenClosed])

\* The deck: filters, fetches, swipes and gestures, with the modal closed.
Next ==
    \/ handleFiltersChange
    \/ handleSourceChange
    \/ FetchSucceeds
    \/ FetchEmptyPayload
    \/ FetchFails
    \/ SafetyTimerFires
    \/ AnimationSettles
    \/ onPanResponderGrant
    \/ Release
    \/ onPanResponderTerminate

Spec == Init /\ [][Next]_vars

\* The detail modal over the deck of the initial filters.
ModalNext ==
    \/ FetchSucceeds
    \/ handleOpenDetail
    \/ onClose
    \/ handleToggleState
    \/ handleAssign
    \/ handleToggleLabel
    \/ handleAddComment
    \/ MutationSucceeds
    \/ MutationFails

ModalSpec == Init /\ [][ModalNext]_vars

\* The service: its methods, one at a time, the network and the token functions.
ServiceNext ==
    \/ setGitHubAccessToken
    \/ clearGitHubAccessToken
    \/ fetchAllIssues
    \/ fetchOrgIssues
    \/ fetchProjectIssues
    \/ updateIssueState
    \/ getItemSettles
    \/ Responds
    \/ jsonSettles

ServiceSpec == Init /\ [][ServiceNext]_vars

\* The handling of upstream payloads: the controller applying the pages of its
\* search feed, and fetchProjectIssues with the bodies of its two requests.
PayloadNext ==
    \/ FetchSucceeds
    \/ FetchEmptyPayload
    \/ fetchProjectIssues
    \/ Responds
    \/ jsonSettles

PayloadSpec == Init /\ [][PayloadNext]_vars

\* The summary service under the presses of the cards' summary buttons.
SummaryNext ==
    \/ getIssueSummary
    \/ SummarySucceeds
    \/ SummaryFails

SummarySpec == Init /\ [][SummaryNext]_vars

\* Paging through a feed that does not change, of any length up to one issue
\* more than two full pages, by a user who keeps swiping to the next card and never back to the
\* previous one: no filter change, every page answered from the same feed.
PagingInit ==
    \E n \in 0..(2 * PerPage + 1) : InitWith([open |-> n, closed |-> FeedLenClosed])

\* A drag is released past the thresholds to the left.
ReleaseLeft == ReleaseWith("left")

\* A drag is released short of the thresholds.
ReleaseBack == ReleaseWith("back")

PagingNext ==
    \/ FetchSucceedsUnchanged
    \/ SafetyTimerFires
    \/ AnimationSettles
    \/ onPanResponderGrant
    \/ ReleaseLeft
    \/ ReleaseBack
    \/ onPanResponderTerminate

\* The upstream answers every request, armed timers fire, and the user starts
\* gestures and releases them to the left again and again (a gesture may also
\* be released short or be taken away in between).
PagingSpec ==
    /\ PagingInit /\ [][PagingNext]_vars
    /\ WF_vars(FetchSucceedsUnchanged)
    /\ WF_vars(SafetyTimerFires)
    /\ WF_vars(onPanResponderGrant)
    /\ SF_vars(ReleaseLeft)

\* ================================================================== claims
\* C1: whenever the deck is non-empty, 0 <= currentIndex < items.length, in
\* every reachable state of the controller.
C1_IndexWithinDeck ==
    Len(issues) > 0 => (0 <= currentIndex /\ currentIndex < Len(issues))

\* A fetch whose Filter Specification is no longer the active one.
Superseded(f) == f.filters # filters

\* C2: the result of a fetch started under a superseded Filter Specification is
\* discarded on arrival: it changes neither the items, the index, hasMore nor
\* the page counter.
C2_SupersededResultDiscarded ==
    [][\A f \in fetches : \A shift \in Shifts(f.pageNum) :
          (Superseded(f) /\ FetchSucceedsOf(f, shift))
              => UNCHANGED <<issues, currentIndex, hasMore, page>>]_vars

Key(i) == <<i.repo, i.number>>

\* C3: while the Filter Specification stays fixed, no two items of the deck
\* share a (repository, number) key, whatever pages upstream served.
C3_NoDuplicateKeys ==
    nFilt = 0 =>
        \A i, j \in 1..Len(issues) : i # j => Key(issues[i]) # Key(issues[j])

Directions == {"left", "right"}

\* The swipe would leave the loaded list: forward from the last loaded item or
\* backward from index 0.
PastEnd(direction) ==
    IF direction = "left" THEN currentIndex + 1 > Len(issues) - 1
    ELSE currentIndex - 1 < 0

\* A release resolved as a swipe past either end starts no off-screen settle: it
\* bounces back, leaves currentIndex unchanged and does not set isAnimating; and
\* a settle that is started targets an index of the list as loaded just then.
PastEndSpringsBack ==
    \A d \in Directions :
        ReleaseWith(d) =>
            /\ PastEnd(d) =>
                  /\ currentIndex' = currentIndex
                  /\ ~isAnimating'
                  /\ safetyTimer' = Null
                  /\ anim' = <<"bounce">>
            /\ (anim' # Null /\ anim'[1] = "out") =>
                  (0 <= anim'[2] /\ anim'[2] <= Len(issues) - 1)

\* A step of a swipe: its release, or its completion by the settle callback or
\* by the safety timer.
SwipeStep == Release \/ AnimationSettles \/ SafetyTimerFires

\* C5: a swipe past either end of the loaded list springs back without starting
\* a settle, leaving currentIndex unchanged and isAnimating unset; and no step of
\* a swipe moves currentIndex above Len(issues) - 1 or below 0.
C5_SwipeStaysInsideList ==
    [][/\ PastEndSpringsBack
       /\ (SwipeStep /\ currentIndex' # currentIndex) =>
             (0 <= currentIndex' /\ currentIndex' <= Len(issues') - 1)]_vars

\* C6: a gesture released with |dx| < 50 and |vx| < 0.25 springs back: the
\* controller is idle again, currentIndex is unchanged, isAnimating is not set.
C6_SmallGestureSpringsBack ==
    [][\A dx \in DxValues, vx \in VxValues :
          (/\ Abs(dx) < SWIPE_THRESHOLD
           /\ Abs(vx) < SWIPE_VELOCITY_THRESHOLD
           /\ onPanResponderRelease(dx, vx))
              => /\ currentIndex' = currentIndex
                 /\ ~isAnimating'
                 /\ ~dragging'
                 /\ safetyTimer' = Null
                 /\ anim' = <<"back">>]_vars

\* A spring-back is running on a deck in which a swipe could have advanced.
C6_Witness ==
    /\ anim = <<"back">> /\ ~dragging /\ ~isAnimating
    /\ Len(issues) > 1 /\ currentIndex = 0

LiveSpec == Spec /\ WF_vars(SafetyTimerFires)

\* C8: whenever isAnimating is true it becomes false again, by the safety timer
\* if the animation never signals completion (within the request budget of a
\* run, which may otherwise stop the model before the timer's step).
C8_LockEventuallyReleased ==
    isAnimating ~> (~isAnimating \/ nFetch = MaxFetches)

\* The lock was released by the timer, the settle callback not having fired.
C8_Witness == completedBy = "timer" /\ ~isAnimating

\* C9: when the upstream call of a mutation fails, the deck's items,
\* currentIndex and the issue of the detail view are unchanged.
C9_FailedMutationChangesNothing ==
    [][\A m \in muts :
          MutationFailsOf(m) => UNCHANGED <<issues, currentIndex, selectedIssue>>]_vars

\* A setState('closed') on an open issue failed and the issue is still open.
C9_Witness ==
    /\ alert = "Failed to update issue state"
    /\ nMut = 1 /\ muts = {}
    /\ selectedIssue # Null /\ selectedIssue[1].state = "open"
    /\ Len(issues) > 0 /\ issues[1].state = "open"

SameIssue(a, b) == a.issueId = b.issueId /\ a.repo = b.repo

ChangedField(kind, i) ==
    CASE kind = "state" -> <<i.state>>
      [] kind = "assign" -> i.assignees
      [] kind = "labels" -> i.labels
      [] OTHER -> <<>>

\* C10: while a mutation call for an issue is outstanding, the deck entry and
\* the detail view of that issue hold the pre-mutation value of the field the
\* mutation changes.
C10_PreMutationValueWhileOutstanding ==
    \A m \in muts :
        /\ \A k \in 1..Len(issues) :
              SameIssue(issues[k], m.issue) =>
                  ChangedField(m.kind, issues[k]) = ChangedField(m.kind, m.issue)
        /\ (selectedIssue # Null /\ SameIssue(selectedIssue[1], m.issue)) =>
              ChangedField(m.kind, selectedIssue[1]) = ChangedField(m.kind, m.issue)

\* C11: a successful mutation replaces exactly the deck entries with the
\* (repository, number) of the updated issue, by the updated issue, and leaves
\* currentIndex, the deck's length, the order of keys and every other entry
\* unchanged; the updated issue has the key of the issue the mutation was sent
\* for.
C11_UpdateReplacesByIdentityOnly ==
    [][\A m \in muts :
          (MutationSucceedsOf(m) /\ m.kind # "comment") =>
              /\ Key(m.updated) = Key(m.issue)
              /\ currentIndex' = currentIndex
              /\ Len(issues') = Len(issues)
              /\ \A k \in 1..Len(issues) :
                    /\ Key(issues'[k]) = Key(issues[k])
                    /\ issues'[k] = IF Key(issues[k]) = Key(m.updated)
                                    THEN m.updated ELSE issues[k]]_vars

\* The first card was closed by a mutation; the second, which has the same
\* number in another repository, is as fetched.
C11_Witness ==
    /\ alert = "Updated" /\ Len(issues) > 1
    /\ issues[1].state = "closed" /\ issues[2].state = "open"
    /\ issues[1].number = issues[2].number /\ issues[1].repo # issues[2].repo

\* C12: when a prefetch (a fetch of a page after the first) of the active
\* specification fails, hasMore becomes false, no further request is issued,
\* and currentIndex and the loaded items are unchanged.
C12_FailedPrefetchStopsPrefetching ==
    [][\A f \in fetches :
          (FetchFailsOf(f) /\ ~f.isReset /\ f.filters = filters) =>
              /\ ~hasMore'
              /\ fetches' \subseteq fetches
              /\ issues' = issues
              /\ currentIndex' = currentIndex]_vars

\* The number of items the page applied by this step carried.
ReturnedCount(f) == IF f.isReset THEN Len(issues') ELSE Len(issues') - Len(issues)

\* C13: for the search strategy, the hasMore of an applied page is true exactly
\* when the page carried as many items as the page size.
C13_HasMoreIffFullPage ==
    [][\A f \in fetches : \A shift \in Shifts(f.pageNum) :
          FetchSucceedsOf(f, shift) => (hasMore' = (ReturnedCount(f) = PerPage))]_vars

\* The scenario at scale: a feed one page and a part long; the first page was
\* full (the prefetch followed it), the second was not and ended the feed.
C13_Witness ==
    /\ nFilt = 0 /\ page = 2 /\ ~hasMore
    /\ Len(issues) = FeedLenOpen /\ FeedLenOpen > PerPage /\ FeedLenOpen < 2 * PerPage

\* C16 (controller): after a fetch failed with the 401 error, no fetch request
\* is issued unless the user changes the filters: neither by the step that
\* handles the failure nor while that error is the last one shown.
C16_NoFetchAfterAuthFailure ==
    [][(/\ filters' = filters
        /\ \/ \E f \in fetches : FetchFailsWith(f, AuthFailedMessage)
           \/ alert = AuthFailedMessage)
          => nFetch' = nFetch]_vars

\* C20: a reset to an organization feed without an organization issues no
\* upstream request and surfaces an error.
C20_MissingOrganizationFailsFast ==
    [][(/\ FilterDeps(filters') # FilterDeps(filters)
        /\ filters'.source = "organization"
        /\ filters'.organization = None)
          => (nFetch' = nFetch /\ alert' # alert)]_vars

\* The predicates of the structured strategy, as the claim states them.
PassesStatus(node, f) == f = None \/ f = "all" \/ Lower(node.status) = Lower(f)
PassesRepository(node, f) == f = None \/ node.repo = f
PassesAssignee(node, f) ==
    CASE f = None -> TRUE
      [] f = "all" -> TRUE
      [] f = "unassigned" -> node.assignees = <<>>
      [] OTHER -> \E i \in 1..Len(node.assignees) : node.assignees[i] = f

ExpectedNodes(nodes, args) ==
    SelectSeq(nodes, LAMBDA node :
        /\ node.number # 0
        /\ PassesStatus(node, args.statusFilter)
        /\ PassesRepository(node, args.repoFilter)
        /\ PassesAssignee(node, args.assigneeFilter))

\* C14: for a response with a project and no errors, fetchProjectIssues returns
\* exactly the upstream nodes, in upstream order, that have an issue number and
\* pass the status, repository and assignee predicates; totalCount and
\* hasNextPage are the upstream ones whatever was dropped.
C14_ProjectPageIsFilteredUpstreamPage ==
    [][(/\ jsonSettles
        /\ call[1].op = "fetchProjectIssues"
        /\ call[1].body[1].project # Null /\ ~call[1].body[1].errors) =>
          /\ returned' # Null /\ returned'[1].type = "page"
          /\ LET pg == returned'[1].page
                 up == call[1].body[1].project[1]
                 expected == ExpectedNodes(up.nodes, call[1].args)
             IN /\ Len(pg.items) = Len(expected)
                /\ \A i \in 1..Len(expected) :
                      /\ pg.items[i].number = expected[i].number
                      /\ pg.items[i].repo = expected[i].repo
                      /\ pg.items[i].assignees = expected[i].assignees
                      /\ pg.items[i].statusValue = expected[i].status
                /\ pg.totalCount = up.totalCount
                /\ pg.hasNextPage = up.hasNextPage]_vars

\* A project page of MaxNodes nodes was returned with one node dropped: the
\* status filter 'todo' kept the node with status 'Todo', and totalCount still
\* counts all the nodes of the project, the one of the next page included.
C14_Witness ==
    /\ returned # Null /\ returned[1].type = "page"
    /\ Len(sent) = 1 /\ sent[1].stage = "org"
    /\ Len(returned[1].page.items) = MaxNodes - 1
    /\ returned[1].page.items[1].statusValue = "Todo"
    /\ returned[1].page.totalCount = MaxNodes + 1
    /\ returned[1].page.hasNextPage

\* C15: once its organization-style request is out, fetchProjectIssues goes on
\* to the user-style request exactly when the body of the organization-style
\* response carries no project and no errors; a
\* transport failure or an error response is followed by no second request,
\* and a call never issues more than two requests.
C15_SecondRequestOnlyForMissingProject ==
    [][(/\ call # Null /\ call[1].op = "fetchProjectIssues"
        /\ call[1].stage = "org" /\ call[1].phase \in {"wait", "body"}
        /\ call' # call) =>
          /\ (call' # Null /\ call'[1].stage = "usr")
                <=> (/\ call[1].phase = "body"
                     /\ call[1].body[1].project = Null
                     /\ ~call[1].body[1].errors)
          /\ Len(sent') <= 2]_vars

\* C18: every request that goes upstream carries a non-null token, however
\* setting and clearing the token interleave with the calls; and when the
\* token is neither in memory nor in storage the pending getAccessToken throws
\* without a request being issued, which rejects the method with the
\* missing-token error (or, in fetchProjectIssues, leads to its second attempt,
\* which meets the same check).
C18_NoRequestWithoutToken ==
    [][/\ \A i \in 1..Len(sent') : sent'[i].token # Null
       /\ (/\ call # Null /\ call[1].phase = "token" /\ call' # call
           /\ githubAccessToken = Null
           /\ call[1].seen = Null /\ storedToken = Null) =>
             /\ sent' = sent
             /\ \/ returned' = <<[type |-> "error", message |-> TokenMissingMessage]>>
                \/ /\ call[1].op = "fetchProjectIssues" /\ call[1].stage = "org"
                   /\ call' # Null /\ call'[1].stage = "usr"
                   /\ call'[1].phase = "token"]_vars

\* A method called with the token cleared from memory and from storage was
\* rejected with the missing-token error and nothing went upstream.
C18_Witness ==
    /\ returned = <<[type |-> "error", message |-> TokenMissingMessage]>>
    /\ sent = <<>>
    /\ githubAccessToken = Null /\ storedToken = Null

RECURSIVE JoinTerms(_)
JoinTerms(terms) ==
    IF Len(terms) = 0 THEN ""
    ELSE IF Len(terms) = 1 THEN terms[1]
    ELSE terms[1] \o " " \o JoinTerms(Tail(terms))

\* The terms of the claim for the search request of call c.
ScopeTerms(c) ==
    IF c.args.repo # None THEN <<"repo:" \o c.args.repo>>
    ELSE IF c.op = "fetchOrgIssues" THEN <<"org:" \o c.args.org>>
    ELSE <<>>

AssigneeTerms(c) ==
    IF c.op = "fetchAllIssues" THEN <<"assignee:" \o CurrentUserLogin>>
    ELSE CASE c.args.assignee = "me" -> <<"assignee:" \o CurrentUserLogin>>
           [] c.args.assignee = "unassigned" -> <<"no:assignee">>
           [] c.args.assignee \in {None, "all"} -> <<>>
           [] OTHER -> <<"assignee:" \o c.args.assignee>>

LabelTerms(c) == [i \in 1..Len(c.args.labels) |-> "label:\"" \o c.args.labels[i] \o "\""]

TextTerms(c) == IF c.args.searchQuery # None THEN <<c.args.searchQuery>> ELSE <<>>

\* A search request of the call is awaiting its response.
SearchOut == call # Null /\ call[1].stage = "search" /\ call[1].phase = "wait"

\* C19 as stated: the query of every search request is the space-joined
\* sequence type marker, state, scoping, assignee term, label terms, free text.
C19_QueryInClaimedOrder ==
    SearchOut =>
        sent[Len(sent)].q =
            JoinTerms(<<"is:issue", "state:" \o call[1].args.state>>
                      \o ScopeTerms(call[1]) \o AssigneeTerms(call[1])
                      \o LabelTerms(call[1]) \o TextTerms(call[1]))

\* C19, amended: as stated for the organization feed; in the personal feed the
\* assignee term (always the caller's own login) comes before the repository
\* scoping term.
C19_QueryIsTermSequence ==
    SearchOut =>
        sent[Len(sent)].q =
            JoinTerms(<<"is:issue", "state:" \o call[1].args.state>>
                      \o (IF call[1].op = "fetchAllIssues"
                          THEN AssigneeTerms(call[1]) \o ScopeTerms(call[1])
                          ELSE ScopeTerms(call[1]) \o AssigneeTerms(call[1]))
                      \o LabelTerms(call[1]) \o TextTerms(call[1]))

\* The personal feed's search request for a repository, two labels and a free
\* text is out.
C19_Witness ==
    /\ SearchOut /\ call[1].op = "fetchAllIssues"
    /\ sent[Len(sent)].q =
          "is:issue state:open assignee:octocat repo:o/r label:\"bug\" label:\"ui\" crash"

\* C17: a search payload without an item list is applied by the controller as
\* a page with no items and hasMore = false, without an alert and without a new
\* request, and while hasMore is false no request follows; fetchProjectIssues
\* returns the page with no items, totalCount 0 and hasNextPage = false for a
\* body with errors and for a user-style body without a project, and does not
\* reject.
C17_EmptyPayloadIsEmptyPage ==
    [][/\ \A f \in fetches :
             FetchEmptyPayloadOf(f) =>
                 /\ alert' = alert
                 /\ ~hasMore'
                 /\ issues' = (IF f.isReset THEN <<>> ELSE issues)
                 /\ nFetch' = nFetch /\ fetches' = fetches \ {f}
       /\ ~hasMore => nFetch' = nFetch
       /\ (/\ jsonSettles /\ call[1].op = "fetchProjectIssues"
           /\ \/ call[1].body[1].errors
              \/ call[1].body[1].project = Null /\ call[1].stage = "usr") =>
             returned' = <<[type |-> "page",
                            page |-> [items |-> <<>>, totalCount |-> 0,
                                      hasNextPage |-> FALSE]]>>]_vars

\* The prefetch of page 2 was answered without an item list: the deck keeps
\* its first page, hasMore is false, nothing is in flight and no alert was
\* raised; and fetchProjectIssues returned the empty page after both of its
\* requests.
C17_Witness ==
    /\ page = 2 /\ Len(issues) = PerPage /\ ~hasMore
    /\ fetches = {} /\ alert = None
    /\ Len(sent) = 2
    /\ returned = <<[type |-> "page", page |-> EmptyProjectPage]>>

\* C21: when a label update succeeds for an issue whose deck entry already
\* carries the full label set that was sent (the set was applied before),
\* this second application changes nothing in the deck entry.
C21_SameLabelSetTwiceChangesNothing ==
    [][\A m \in muts :
          (m.kind = "labels" /\ MutationSucceedsOf(m)) =>
              \A k \in 1..Len(issues) :
                  (SameIssue(issues[k], m.issue) /\ issues[k].labels = m.updated.labels)
                      => issues'[k] = issues[k]]_vars

\* C22: once a summary is cached for a key it stays the same for the rest of
\* the run and no further upstream request is issued for that key, so every
\* later call returns that one text; a call for a cached key returns the cached
\* text; a failed call stores nothing; and a call for a key without cached
\* summary issues a request.
C22_SummaryCachedPerKey ==
    [][/\ \A key \in CacheKeys :
             summaryCache[key] # Null =>
                 /\ summaryCache'[key] = summaryCache[key]
                 /\ requested'[key] = requested[key]
       /\ \A c \in summaries : SummaryFailsOf(c) => summaryCache' = summaryCache
       /\ getIssueSummary =>
             \E key \in CacheKeys :
                 IF summaryCache[key] # Null
                 THEN /\ summaryResult' = <<[key |-> key, type |-> "summary",
                                             summary |-> summaryCache[key][1]]>>
                      /\ requested' = requested
                 ELSE /\ requested' = [requested EXCEPT ![key] = @ + 1]
                      /\ Cardinality(summaries') = Cardinality(summaries) + 1]_vars

\* A step of the search fetch in progress.
FetchPageStep ==
    /\ call # Null /\ call[1].op \in {"fetchAllIssues", "fetchOrgIssues"}
    /\ getItemSettles \/ Responds \/ jsonSettles

C24_NoPrefetchWhileFetchPending ==
    [][\A f \in fetches' \ fetches : ~f.isReset => fetches' = {f}]_vars

\* The deck after the step is non-empty, within the lookahead of its end, and
\* more pages are known to exist.
PrefetchDue ==
    /\ Len(issues') > 0
    /\ currentIndex' >= Len(issues') - Lookahead
    /\ hasMore'

C26_PrefetchOnlyAppends ==
    [][\A f \in fetches : \A shift \in Shifts(f.pageNum) :
          (~f.isReset /\ FetchSucceedsOf(f, shift)) =>
              LET items == SearchItems(f.filters, f.pageNum, shift)
              IN /\ currentIndex' = currentIndex
                 /\ Len(issues') = Len(issues) + Len(items)
                 /\ \A k \in 1..Len(issues) : issues'[k] = issues[k]
                 /\ \A k \in 1..Len(items) : issues'[Len(issues) + k] = items[k]]_vars

\* The second page was appended behind the first while the second card was
\* shown.
C26_Witness ==
    /\ page = 2 /\ Len(issues) = FeedLenOpen /\ fetches = {}
    /\ currentIndex = 1 /\ nFilt = 0
    /\ \A k \in 1..Len(issues) : issues[k].issueId = k

\* The feed of f from its first issue to its last.
WholeFeed(f) == [k \in 1..FeedLen(f) |-> FeedItem(f, k)]

\* C27: over a feed of N issues that does not change, hasMore eventually becomes
\* false, and whenever it is false the deck is the N issues of the feed, each
\* once and in feed order, and the last page asked for is page N div PerPage + 1:
\* for N a positive multiple of PerPage, one page after the last full one, which
\* came back empty.
C27_PagingTerminates ==
    /\ <>(~hasMore)
    /\ [](~hasMore => /\ issues = WholeFeed(filters)
                      /\ page = (FeedLen(filters) \div PerPage) + 1
                      /\ nFetch = page
                      /\ fetches = {})

\* The feed is exactly two full pages: the page after them was fetched, came
\* back empty and ended the paging, and the user has reached the last card.
C27_Witness ==
    /\ ~hasMore /\ FeedLen(filters) = 2 * PerPage
    /\ Len(issues) = FeedLen(filters) /\ page = 3 /\ nFetch = 3 /\ fetches = {}
    /\ currentIndex = Len(issues) - 1

\* C28: a move of (dx, dy) starts a drag exactly when isAnimating is false,
\* |dx| > 15 and |dx| > 1.5 |dy|, and any other move changes nothing; so every
\* step into dragging starts where isAnimating is false.
C28_DragStartsOnlyWhenIdleAndHorizontal ==
    [][/\ \A g \in Moves :
             GestureStart(g[1], g[2]) =>
                 IF ~isAnimating /\ Abs(g[1]) > 15 /\ 2 * Abs(g[1]) > 3 * Abs(g[2])
                 THEN dragging'
                 ELSE UNCHANGED vars
       /\ (~dragging /\ dragging') => ~isAnimating]_vars

\* A drag on the second card, after the swipe that brought it up had settled.
C28_Witness ==
    /\ dragging /\ ~isAnimating /\ currentIndex = 1 /\ completedBy = "settle"
    /\ anim = Null /\ safetyTimer = Null

\* The step is forceSwipe(d) run from an unlocked controller: a settle towards the
\* neighbouring index in direction d, or the bounce at the end of the deck.
AttemptsAdvance(d) ==
    LET target == IF d = "left" THEN currentIndex + 1 ELSE currentIndex - 1
    IN /\ currentIndex' = currentIndex
       /\ \/ isAnimating' /\ anim' = <<"out", target>> /\ safetyTimer' = <<target>>
          \/ ~isAnimating' /\ anim' = <<"bounce">> /\ safetyTimer' = Null

\* C29: a release with displacement dx and velocity vx (in hundredths) attempts
\* an advance to the left when dx < -50 or (dx < -25 and vx < -0.25), to the
\* right when dx > 50 or (dx > 25 and vx > 0.25), and in every other case
\* starts the spring back to the centre, leaving currentIndex unchanged and the
\* controller unlocked.
C29_ReleaseAdvancesIffPastThresholds ==
    [][\A dx \in DxValues, vx \in VxValues :
          onPanResponderRelease(dx, vx) =>
              IF dx < -50 \/ (dx < -25 /\ vx < -25) THEN AttemptsAdvance("left")
              ELSE IF dx > 50 \/ (dx > 25 /\ vx > 25) THEN AttemptsAdvance("right")
              ELSE /\ currentIndex' = currentIndex
                   /\ anim' = <<"back">>
                   /\ ~isAnimating' /\ safetyTimer' = Null]_vars

\* A release to the right on the second card started the settle back to the
\* first.
C29_Witness ==
    /\ isAnimating /\ ~dragging /\ currentIndex = 1
    /\ anim = <<"out", 0>> /\ safetyTimer = <<0>>

\* C30: while isAnimating is true, forceSwipe in either direction returns with
\* currentIndex, isAnimating, the armed timer and the running animation as they
\* were; the lock is held exactly while a timer is armed, and a settle animation
\* that can still complete is the one the lock and the timer are held for; a
\* step under which the lock stays held replaces neither, and a step that
\* releases the lock is the completion of that settle, at its own target.
C30_OneSettleOutstanding ==
    [][/\ isAnimating =>
             \A d \in Directions :
                 LET s == forceSwipe(Swipe, d)
                 IN /\ s.currentIndex = currentIndex /\ s.isAnimating
                    /\ s.safetyTimer = safetyTimer /\ s.anim = anim
       /\ isAnimating <=> safetyTimer # Null
       /\ (anim # Null /\ anim[1] = "out") =>
             (isAnimating /\ safetyTimer = <<anim[2]>>)
       /\ (isAnimating /\ isAnimating') =>
             (safetyTimer' = safetyTimer /\ anim' = anim)
       /\ (isAnimating /\ ~isAnimating') =>
             /\ AnimationSettles \/ SafetyTimerFires
             /\ currentIndex' = safetyTimer[1]
             /\ safetyTimer' = Null /\ anim' = Null]_vars

\* The second swipe of a run is settling, the first having completed.
C30_Witness ==
    /\ isAnimating /\ currentIndex = 1 /\ ~dragging
    /\ anim = <<"out", 2>> /\ safetyTimer = <<2>>

\* C31: a step that starts and ends with a drag in progress leaves currentIndex
\* as it is.
C31_IndexFixedWhileDragging ==
    [][(dragging /\ dragging') => currentIndex' = currentIndex]_vars

\* C32 as stated: whenever an animation started by a release is running,
\* isAnimating is true.
C32_LockHeldWhileAnyAnimationRuns == anim # Null => isAnimating

\* C32, amended: isAnimating is true exactly while the settle animation of an
\* advancing swipe is running; a release sets it exactly when it starts that
\* animation, a spring-back and an edge bounce run with isAnimating false, and
\* the step that clears it leaves no animation running.
C32_LockHeldWhileSwipeSettles ==
    [][/\ isAnimating <=> (anim # Null /\ anim[1] = "out")
       /\ \A o \in {"left", "right", "back"} :
             ReleaseWith(o) =>
                 /\ anim' # Null
                 /\ isAnimating' <=> anim'[1] = "out"
       /\ (isAnimating /\ ~isAnimating') => anim' = Null]_vars

\* A swipe to the right on the first card bounces at the edge, the lock clear.
C32_Witness ==
    /\ anim = <<"bounce">> /\ ~isAnimating /\ ~dragging
    /\ currentIndex = 0 /\ Len(issues) > 1 /\ safetyTimer = Null

\* C33: the step that starts a drag and the step that terminates one leave no
\* animation running, isAnimating false and no timer armed; throughout a drag
\* that stays so, and a timer or settle step taken during a drag (there is
\* nothing left for one to do) leaves currentIndex as it is.
C33_FreshDragCancelsSettle ==
    [][/\ ((~dragging /\ dragging') \/ onPanResponderTerminate) =>
             (anim' = Null /\ ~isAnimating' /\ safetyTimer' = Null)
       /\ dragging => (anim = Null /\ ~isAnimating /\ safetyTimer = Null)
       /\ (dragging /\ (SafetyTimerFires \/ AnimationSettles)) =>
             currentIndex' = currentIndex]_vars

\* A drag on the second card, the swipe before it completed by its timer, with
\* nothing of that swipe left.
C33_Witness ==
    /\ dragging /\ currentIndex = 1 /\ completedBy = "timer"
    /\ anim = Null /\ safetyTimer = Null /\ ~isAnimating

\* C34: no two state, assignee or label mutations of the same issue are
\* outstanding at once.
C34_OneMutationPerIssue ==
    \A m1, m2 \in muts :
        (/\ m1.kind \in {"state", "assign", "labels"}
         /\ m2.kind \in {"state", "assign", "labels"}
         /\ SameIssue(m1.issue, m2.issue)) => m1 = m2

\* The names of a label or assignee list, and the names in exactly one of two
\* sets.
SymDiff(A, B) == (A \ B) \cup (B \ A)

\* The list a label or assignee mutation toggles in.
ToggledList(kind, i) == IF kind = "labels" THEN i.labels ELSE i.assignees

\* C35: a label or assignee toggle is computed from the snapshot on display and
\* sends that list without x when x is in it (the others in their order), and
\* with x appended otherwise; and each toggle that succeeds flips exactly the
\* membership of x in the deck entry, so that two in succession restore the
\* set the entry had.
C35_ToggleSendsFullSetAndFlipsDeck ==
    [][/\ \A m \in muts' \ muts :
             m.kind \in {"labels", "assign"} =>
                 LET old == ToggledList(m.kind, m.issue)
                     new == ToggledList(m.kind, m.updated)
                     x == SymDiff(Range(old), Range(new))
                 IN /\ m.issue = selectedIssue[1]
                    /\ Cardinality(x) = 1
                    /\ \/ new = old \o <<CHOOSE n \in x : TRUE>>
                       \/ /\ Len(new) = Len(old) - 1
                          /\ \E p \in 1..Len(old) :
                                /\ old[p] \in x
                                /\ \A i \in 1..Len(new) :
                                      new[i] = IF i < p THEN old[i] ELSE old[i + 1]
       /\ \A m \in muts :
             (m.kind \in {"labels", "assign"} /\ MutationSucceedsOf(m)) =>
                 \A k \in 1..Len(issues) :
                     SameIssue(issues[k], m.issue) =>
                         Range(ToggledList(m.kind, issues'[k])) =
                             SymDiff(Range(ToggledList(m.kind, issues[k])),
                                     SymDiff(Range(ToggledList(m.kind, m.issue)),
                                             Range(ToggledList(m.kind, m.updated))))]_vars

\* C36: a mutation that succeeds changes, in the deck entry and the detail view
\* of its issue, only the field it is a mutation of; what earlier successful
\* mutations wrote to the other fields stays.
C36_SuccessKeepsOtherChanges ==
    [][\A m \in muts :
          (MutationSucceedsOf(m) /\ m.kind # "comment") =>
              /\ \A k \in 1..Len(issues) :
                    SameIssue(issues[k], m.issue) =>
                        \A kind \in {"state", "assign", "labels"} \ {m.kind} :
                            ChangedField(kind, issues'[k]) = ChangedField(kind, issues[k])
              /\ SameIssue(selectedIssue[1], m.issue) =>
                    \A kind \in {"state", "assign", "labels"} \ {m.kind} :
                        ChangedField(kind, selectedIssue'[1]) =
                            ChangedField(kind, selectedIssue[1])]_vars

\* C37: `page` is the last page of the active Filter Specification applied to
\* the deck, and every prefetch asks for the page after it: a prefetch carries
\* the active specification and page + 1, none is issued while the first page
\* of the active specification has yet to be applied, and the response of a
\* fetch of a superseded specification leaves `page` as it is.
C37_PagesRequestedInSequence ==
    [][/\ \A f \in fetches' \ fetches :
             ~f.isReset =>
                 /\ f.filters = filters'
                 /\ f.pageNum = page' + 1
                 /\ ~\E g \in fetches' : g.isReset /\ g.filters = filters'
       /\ \A f \in fetches \ fetches' : f.filters # filters => page' = page]_vars

\* C38: a successful mutation applied to the deck while a prefetch is pending
\* is not lost.  The success replaces the deck entry of the issue and leaves the
\* pending fetches alone; the response of a prefetch then keeps every entry of
\* the deck as it is and puts the items of the page, unchanged, after them.
C38_MutationSurvivesAppend ==
    [][/\ \A m \in muts :
             (MutationSucceedsOf(m) /\ m.kind # "comment") =>
                 /\ fetches' = fetches
                 /\ \A i \in 1..Len(issues) :
                        SameIssue(issues[i], m.updated) => issues'[i] = m.updated
       /\ \A f \in fetches : \A shift \in Shifts(f.pageNum) :
             (~f.isReset /\ FetchSucceedsOf(f, shift)) =>
                 LET items == PageResult(f.filters, f.pageNum, shift).items
                 IN /\ Len(issues') = Len(issues) + Len(items)
                    /\ \A i \in 1..Len(issues) : issues'[i] = issues[i]
                    /\ \A j \in 1..Len(items) :
                           issues'[Len(issues) + j] = items[j]]_vars

\* The label of the first card was toggled while page 2 was being fetched; page
\* 2 has since been appended and the card still carries the label.
C38_Witness ==
    /\ mutatedDuringPrefetch /\ nMut = 1 /\ muts = {}
    /\ fetches = {} /\ page = 2 /\ Len(issues) > PerPage
    /\ issues[1].labels = <<"bug">>

\* C39: once the token is cleared from memory, only setGitHubAccessToken brings
\* a token back: any other step leaves githubAccessToken null and sends no
\* request that carries a token.
C39_ClearedTokenStaysCleared ==
    [][(githubAccessToken = Null /\ ~setGitHubAccessToken) =>
          /\ githubAccessToken' = Null
          /\ (sent' # sent /\ Len(sent') > 0) =>
                sent'[Len(sent')].token \notin Tokens]_vars

\* C40: between event handlers isAnimating is true exactly when a safety timer
\* is armed.  A step that sets the flag is a release that arms the timer in the
\* same step, a step that clears the flag disarms the timer in the same step,
\* and no step arms or disarms the timer with the flag left as it was.
C40_LockIffTimerArmed ==
    [][/\ isAnimating <=> safetyTimer # Null
       /\ (~isAnimating /\ isAnimating') =>
             (Release /\ safetyTimer = Null /\ safetyTimer' # Null)
       /\ (isAnimating /\ ~isAnimating') =>
             (safetyTimer # Null /\ safetyTimer' = Null)
       /\ (isAnimating' = isAnimating) => (safetyTimer' = safetyTimer)]_vars

\* The third card is swiped back to the right: the lock is set and the timer
\* for the second card is armed.
C40_Witness ==
    /\ isAnimating /\ safetyTimer = <<1>> /\ anim = <<"out", 1>>
    /\ currentIndex = 2 /\ ~dragging

====
